---- MODULE Spec2Model ----
(***************************************************************************)
(* Delay lines of the Computer Music Toolkit (src/src/delay.cpp): the      *)
(* DelayLine instance, its activation and its two run functions.           *)
(*                                                                         *)
(* Number representation.  LADSPA_Data values are modelled exactly, as     *)
(* rationals with a fixed denominator:                                     *)
(*   - times (the maximum delay, the delay port) are numerators over       *)
(*     TimeDen, i.e. a value v stands for v / TimeDen seconds;             *)
(*   - the dry/wet port is a numerator over WetDen;                        *)
(*   - the feedback port and the audio samples are integers;               *)
(*   - an output sample is stored multiplied by WetDen, so that            *)
(*     fDry * in + fWet * delayed stays an integer.                        *)
(* All values stay finite and far inside the range of unsigned long and of *)
(* LADSPA_Data, so no rounding or wrap-around of the machine types occurs. *)
(***************************************************************************)
EXTENDS Integers, Sequences, FiniteSets, TLC

\* ---------------------------------------------------------------- bounds
TimeDen == 2        \* resolution of the time values
WetDen == 2         \* resolution of the dry/wet values
MaxBlock == 3       \* SampleCount ranges over 0..MaxBlock
MaxSimpleStream == 6    \* samples processed between two activations, by
MaxFeedbackStream == 4  \* runSimpleDelayLine and by runFeedbackDelayLine
MaxRate == 4        \* sample rates of the instances that are only sized
MaxDelayNum == 6    \* their maximum delays, over TimeDen

\* <<lSampleRate, fMaximumDelay>> of the instances that are run at length
Instances == {<<1, 1>>, <<1, 3>>, <<2, 3>>}
\* ... and of those that are constructed, activated and run for one sample
SizedInstances == (1 .. MaxRate) \X (1 .. MaxDelayNum)

Samples == {0, 1}                 \* audio input samples
Garbage == {0, 5}                 \* contents of memory that was never written
FeedbackPorts == {-2, -1, 0, 1, 2}
WetPorts == (0 - 1) .. (WetDen + 1)

RECURSIVE SeqsOfLen(_)
SeqsOfLen(n) ==
  IF n = 0 THEN {<<>>}
  ELSE {Append(s, x) : s \in SeqsOfLen(n - 1), x \in Samples}

Blocks == UNION {SeqsOfLen(n) : n \in 0 .. MaxBlock}

\* ------------------------------------------------------------- the state
VARIABLES
  m_fSampleRate,    \* LADSPA_Data(lSampleRate)
  m_fMaximumDelay,  \* numerator over TimeDen
  m_lBufferSize,
  m_pfBuffer,       \* [0 .. m_lBufferSize - 1 -> Int]
  m_lWritePointer,
  lDelayTypeIndex,  \* the descriptor's run function: 0 simple, 1 feedback
  ports,            \* the ports as the last call found and left them, until
                    \* the host takes the output block
  phase,            \* "constructed" (never activated) or "active"
  stream,           \* history: the input samples since the last activation
  fits,             \* history: every block since then had n <= m_lBufferSize
  zeroFb,           \* history: every block since then had feedback 0
  pre,              \* history: buffer and write pointer before the last call
  shadow,           \* history: a simple delay line of the same size, activated
                    \* with this one and run on the same ports ever since
  ideal,            \* history: the recursive filter y[t] = in[t] + g * y[t - d]
                    \* over the stream, on an unbounded past
  twin              \* history: a second simple delay line of the same size,
                    \* activated with this one and run on the same input
                    \* blocks with another delay and another wet each time

vars == <<m_fSampleRate, m_fMaximumDelay, m_lBufferSize, m_pfBuffer,
          m_lWritePointer, lDelayTypeIndex, ports, phase, stream, fits,
          zeroFb, pre, shadow, ideal, twin>>

\* ------------------------------------------------------- pure arithmetic
\* unsigned long arithmetic is modulo a power of two (narrowed to 16 bits:
\* every buffer size of the model divides it, as every real one divides 2^64)
WordModulus == 65536

UL(x) == x % WordModulus

\* x & y on words
RECURSIVE BitAnd(_, _)
BitAnd(x, y) ==
  IF x = 0 \/ y = 0 THEN 0
  ELSE (x % 2) * (y % 2) + 2 * BitAnd(x \div 2, y \div 2)

LIMIT_BETWEEN_NoUpper(x, a, b) == IF x < a THEN a ELSE x

LIMIT_BETWEEN(x, a, b) == IF x < a THEN a ELSE IF x > b THEN b ELSE x

ToSamples_Nearest(seconds, rate) ==
  (2 * seconds * rate + TimeDen) \div (2 * TimeDen)

\* (unsigned long)(seconds * rate): the conversion truncates
ToSamples(seconds, rate) == (seconds * rate) \div TimeDen

\* -------------------------------------------------------- the constructor
RECURSIVE GrowBufferSize_LessEqual(_, _)
GrowBufferSize_LessEqual(size, lMinimumBufferSize) ==
  IF size <= lMinimumBufferSize
  THEN GrowBufferSize_LessEqual(2 * size, lMinimumBufferSize)
  ELSE size

\* while (m_lBufferSize < lMinimumBufferSize) m_lBufferSize <<= 1;
RECURSIVE GrowBufferSize(_, _)
GrowBufferSize(size, lMinimumBufferSize) ==
  IF size < lMinimumBufferSize
  THEN GrowBufferSize(2 * size, lMinimumBufferSize)
  ELSE size

BufferSizeFor_NoMargin(lSampleRate, fMaximumDelay) ==
  LET lMinimumBufferSize == ToSamples(fMaximumDelay, lSampleRate)
  IN  GrowBufferSize(1, lMinimumBufferSize)

\* lMinimumBufferSize = (unsigned long)(lSampleRate * m_fMaximumDelay) + 1
BufferSizeFor(lSampleRate, fMaximumDelay) ==
  LET lMinimumBufferSize == ToSamples(fMaximumDelay, lSampleRate) + 1
  IN  GrowBufferSize(1, lMinimumBufferSize)

NoCall ==
  [op |-> "none", delay |-> 0, wet |-> 0, feedback |-> 0,
   input |-> <<>>, output |-> <<>>]

NoPre == [buffer |-> <<>>, pointer |-> 0]

\* Values an allocated, never written buffer may hold.
GarbageBuffers(size) ==
  {[i \in 0 .. size - 1 |-> g] : g \in Garbage}
    \cup {[i \in 0 .. size - 1 |-> 5 + i]}

\* new DelayLine(lSampleRate, fMaximumDelay): the buffer is allocated but not
\* initialised and m_lWritePointer is not set, so both hold arbitrary values.
DelayLine(instances) ==
  /\ \E inst \in instances :
       /\ m_fSampleRate = inst[1]
       /\ m_fMaximumDelay = inst[2]
  /\ lDelayTypeIndex \in {0, 1}
  /\ m_lBufferSize = BufferSizeFor(m_fSampleRate, m_fMaximumDelay)
  /\ m_pfBuffer \in GarbageBuffers(m_lBufferSize)
  /\ m_lWritePointer \in {0, m_lBufferSize + 1}
  /\ ports = NoCall
  /\ phase = "constructed"
  /\ stream = <<>>
  /\ fits = TRUE
  /\ zeroFb = TRUE
  /\ pre = NoPre
  /\ shadow = [buffer |-> m_pfBuffer, pointer |-> m_lWritePointer,
               output |-> <<>>]
  /\ ideal = <<>>
  /\ twin = [buffer |-> m_pfBuffer, pointer |-> m_lWritePointer]

Init == DelayLine(Instances)

\* ------------------------------------------------------------- activation
ClearBuffer_Partial(buffer, size) ==
  [i \in 0 .. size - 1 |-> IF 4 * i < size THEN 0 ELSE buffer[i]]

\* memset(m_pfBuffer, 0, sizeof(LADSPA_Data) * m_lBufferSize)
ClearBuffer(buffer, size) == [i \in 0 .. size - 1 |-> 0]

activateDelayLine ==
  /\ pre' = [buffer |-> m_pfBuffer, pointer |-> m_lWritePointer]
  /\ m_pfBuffer' = ClearBuffer(m_pfBuffer, m_lBufferSize)
  /\ m_lWritePointer' = 0
  /\ ports' = [NoCall EXCEPT !.op = "activate"]
  /\ phase' = "active"
  /\ stream' = <<>>
  /\ fits' = TRUE
  /\ zeroFb' = TRUE
  /\ shadow' = [buffer |-> ClearBuffer(shadow.buffer, m_lBufferSize),
                pointer |-> 0, output |-> <<>>]
  /\ ideal' = <<>>
  /\ twin' = [buffer |-> ClearBuffer(twin.buffer, m_lBufferSize),
              pointer |-> 0]
  /\ UNCHANGED <<m_fSampleRate, m_fMaximumDelay, m_lBufferSize,
                 lDelayTypeIndex>>

\* ---------------------------------------------------------- the run loops
DelayOf(delayPort, fMaximumDelay, fSampleRate) ==
  ToSamples(LIMIT_BETWEEN(delayPort, 0, fMaximumDelay), fSampleRate)

WetOf(wetPort) == LIMIT_BETWEEN(wetPort, 0, WetDen)

DryOf_Wet(fWet) == fWet

\* fDry = 1 - fWet
DryOf(fWet) == WetDen - fWet

FeedbackOf(feedbackPort) == LIMIT_BETWEEN(feedbackPort, 0 - 1, 1)

AdvancePointer_NoMask(pointer, SampleCount, lBufferSizeMinusOne) ==
  UL(pointer + SampleCount)

AdvancePointer_Stays(pointer, SampleCount, lBufferSizeMinusOne) == pointer

\* (m_lWritePointer + SampleCount) & lBufferSizeMinusOne
AdvancePointer(pointer, SampleCount, lBufferSizeMinusOne) ==
  BitAnd(UL(pointer + SampleCount), lBufferSizeMinusOne)

ReadOffset_DelayPlusOne(lBufferWriteOffset, size, lDelay) ==
  UL(lBufferWriteOffset + size - (lDelay + 1))

ReadOffset_NoSize(lBufferWriteOffset, size, lDelay) ==
  UL(lBufferWriteOffset - lDelay)

\* lBufferReadOffset = lBufferWriteOffset + m_lBufferSize - lDelay
ReadOffset(lBufferWriteOffset, size, lDelay) ==
  UL(lBufferWriteOffset + size - lDelay)

\* The loop of runSimpleDelayLine with the read taken before the store.
RECURSIVE SimpleLoop_ReadFirst(_, _, _, _, _, _, _, _)
SimpleLoop_ReadFirst(i, input, buffer, output, wOff, rOff, mask, fWet) ==
  IF i >= Len(input) THEN [buffer |-> buffer, output |-> output]
  ELSE
    LET fInputSample == input[i + 1]
        delayed == buffer[BitAnd(UL(i + rOff), mask)]
        stored == [buffer EXCEPT ![BitAnd(UL(i + wOff), mask)] = fInputSample]
        out == DryOf(fWet) * fInputSample + fWet * delayed
    IN  SimpleLoop_ReadFirst(i + 1, input, stored, Append(output, out),
                             wOff, rOff, mask, fWet)

\* The loop of runSimpleDelayLine storing the dry part of the sample.
RECURSIVE SimpleLoop_StoresDry(_, _, _, _, _, _, _, _)
SimpleLoop_StoresDry(i, input, buffer, output, wOff, rOff, mask, fWet) ==
  IF i >= Len(input) THEN [buffer |-> buffer, output |-> output]
  ELSE
    LET fInputSample == input[i + 1]
        stored == [buffer EXCEPT ![BitAnd(UL(i + wOff), mask)] =
                     DryOf(fWet) * fInputSample]
        out == DryOf(fWet) * fInputSample
               + fWet * stored[BitAnd(UL(i + rOff), mask)]
    IN  SimpleLoop_StoresDry(i + 1, input, stored, Append(output, out),
                             wOff, rOff, mask, fWet)

\* The loop of runSimpleDelayLine with the two offsets taken for each other.
RECURSIVE SimpleLoop_OffsetsSwapped(_, _, _, _, _, _, _, _)
SimpleLoop_OffsetsSwapped(i, input, buffer, output, wOff, rOff, mask, fWet) ==
  IF i >= Len(input) THEN [buffer |-> buffer, output |-> output]
  ELSE
    LET fInputSample == input[i + 1]
        stored == [buffer EXCEPT ![BitAnd(UL(i + rOff), mask)] = fInputSample]
        out == DryOf(fWet) * fInputSample
               + fWet * stored[BitAnd(UL(i + wOff), mask)]
    IN  SimpleLoop_OffsetsSwapped(i + 1, input, stored, Append(output, out),
                                  wOff, rOff, mask, fWet)

\* runSimpleDelayLine storing the whole block before it reads any sample.
SimpleLoop_StoreBlockFirst(i, input, buffer, output, wOff, rOff, mask, fWet) ==
  LET n == Len(input)
      last(s) == CHOOSE j \in 0 .. n - 1 :
                   /\ BitAnd(UL(j + wOff), mask) = s
                   /\ \A k \in j + 1 .. n - 1 : BitAnd(UL(k + wOff), mask) # s
      stored == [s \in DOMAIN buffer |->
                   IF \E j \in 0 .. n - 1 : BitAnd(UL(j + wOff), mask) = s
                   THEN input[last(s) + 1] ELSE buffer[s]]
  IN  [buffer |-> stored,
       output |-> [k \in 1 .. n |->
                     DryOf(fWet) * input[k]
                       + fWet * stored[BitAnd(UL(k - 1 + rOff), mask)]]]

\* The loop of runSimpleDelayLine: store the input sample, then read the
\* delayed sample from the buffer as the store left it.
RECURSIVE SimpleLoop(_, _, _, _, _, _, _, _)
SimpleLoop(i, input, buffer, output, wOff, rOff, mask, fWet) ==
  IF i >= Len(input) THEN [buffer |-> buffer, output |-> output]
  ELSE
    LET fInputSample == input[i + 1]
        stored == [buffer EXCEPT ![BitAnd(UL(i + wOff), mask)] = fInputSample]
        out == DryOf(fWet) * fInputSample
               + fWet * stored[BitAnd(UL(i + rOff), mask)]
    IN  SimpleLoop(i + 1, input, stored, Append(output, out),
                   wOff, rOff, mask, fWet)

\* runSimpleDelayLine as a function of the instance and the ports
RunSimple(buffer, pointer, size, fMaximumDelay, fSampleRate, delayPort, wetPort, input) ==
  LET lBufferSizeMinusOne == size - 1
      lDelay == DelayOf(delayPort, fMaximumDelay, fSampleRate)
      lBufferWriteOffset == pointer
      lBufferReadOffset == ReadOffset(lBufferWriteOffset, size, lDelay)
      fWet == WetOf(wetPort)
      r == SimpleLoop(0, input, buffer, <<>>, lBufferWriteOffset,
                      lBufferReadOffset, lBufferSizeMinusOne, fWet)
  IN  [buffer |-> r.buffer, output |-> r.output,
       pointer |-> AdvancePointer(pointer, Len(input), lBufferSizeMinusOne)]

ZeroDelayCorrection_None(lDelay) == lDelay

\* if (lDelay == 0) lDelay = 1;
ZeroDelayCorrection(lDelay) == IF lDelay = 0 THEN 1 ELSE lDelay

\* The loop of runFeedbackDelayLine with the wet gain in the store.
RECURSIVE FeedbackLoop_Wet(_, _, _, _, _, _, _, _, _)
FeedbackLoop_Wet(i, input, buffer, output, wOff, rOff, mask, fWet, fFeedback) ==
  IF i >= Len(input) THEN [buffer |-> buffer, output |-> output]
  ELSE
    LET fInputSample == input[i + 1]
        fDelayedSample == buffer[BitAnd(UL(i + rOff), mask)]
        out == DryOf(fWet) * fInputSample + fWet * fDelayedSample
        stored == [buffer EXCEPT ![BitAnd(UL(i + wOff), mask)] =
                     fInputSample + fDelayedSample * fWet]
    IN  FeedbackLoop_Wet(i + 1, input, stored, Append(output, out),
                         wOff, rOff, mask, fWet, fFeedback)

\* The loop of runFeedbackDelayLine: fDelayedSample refers to the read slot,
\* which is read for the output and again for the store that follows.
RECURSIVE FeedbackLoop(_, _, _, _, _, _, _, _, _)
FeedbackLoop(i, input, buffer, output, wOff, rOff, mask, fWet, fFeedback) ==
  IF i >= Len(input) THEN [buffer |-> buffer, output |-> output]
  ELSE
    LET fInputSample == input[i + 1]
        fDelayedSample == buffer[BitAnd(UL(i + rOff), mask)]
        out == DryOf(fWet) * fInputSample + fWet * fDelayedSample
        stored == [buffer EXCEPT ![BitAnd(UL(i + wOff), mask)] =
                     fInputSample + fDelayedSample * fFeedback]
    IN  FeedbackLoop(i + 1, input, stored, Append(output, out),
                     wOff, rOff, mask, fWet, fFeedback)

\* runFeedbackDelayLine from the point where lDelay has been converted
FeedbackFrom(buffer, pointer, size, lDelayConverted, wetPort, feedbackPort, input) ==
  LET lBufferSizeMinusOne == size - 1
      lDelay == ZeroDelayCorrection(lDelayConverted)
      lBufferWriteOffset == pointer
      lBufferReadOffset == ReadOffset(lBufferWriteOffset, size, lDelay)
      fWet == WetOf(wetPort)
      fFeedback == FeedbackOf(feedbackPort)
      r == FeedbackLoop(0, input, buffer, <<>>, lBufferWriteOffset,
                        lBufferReadOffset, lBufferSizeMinusOne, fWet,
                        fFeedback)
  IN  [buffer |-> r.buffer, output |-> r.output,
       pointer |-> AdvancePointer(pointer, Len(input), lBufferSizeMinusOne)]

\* runFeedbackDelayLine as a function of the instance and the ports
RunFeedback(buffer, pointer, size, fMaximumDelay, fSampleRate, delayPort, wetPort, feedbackPort, input) ==
  FeedbackFrom(buffer, pointer, size,
               DelayOf(delayPort, fMaximumDelay, fSampleRate),
               wetPort, feedbackPort, input)

\* The nearest value of lo .. hi to x.
Nearest(x, lo, hi) ==
  CHOOSE v \in lo .. hi :
    \A u \in lo .. hi :
      (IF v >= x THEN v - x ELSE x - v) <= (IF u >= x THEN u - x ELSE x - u)

\* The filter y[t] = in[t] + g * y[t - d], y[j] = 0 for j < 0, continued
\* over one more block.
RECURSIVE IdealFeedback(_, _, _, _)
IdealFeedback(y, input, d, g) ==
  IF input = <<>> THEN y
  ELSE LET t == Len(y)
           delayed == IF t - d < 0 THEN 0 ELSE y[t - d + 1]
       IN  IdealFeedback(Append(y, Head(input) + g * delayed),
                         Tail(input), d, g)

\* max(1, delaySamples)
AtLeastOne(delaySamples) == IF delaySamples >= 1 THEN delaySamples ELSE 1

DelayPorts == (0 - 1) .. (m_fMaximumDelay + 1)

\* Another delay port and another wet port than the given ones, in the
\* other half of the range.
OtherDelay(delayPort) == IF 2 * delayPort >= m_fMaximumDelay THEN 0 ELSE m_fMaximumDelay
OtherWet(wetPort) == IF 2 * wetPort >= WetDen THEN 0 ELSE WetDen

\* A host calls run only on an activated instance (activate is registered,
\* so the host must call it before the first run), and with the ports it
\* has got ready.
RunSimpleUpTo(limit) ==
  /\ phase = "active"
  /\ lDelayTypeIndex = 0
  /\ ports = NoCall
  /\ \E delayPort \in DelayPorts, wetPort \in WetPorts, input \in Blocks :
       /\ Len(stream) + Len(input) <= limit
       /\ LET r == RunSimple(m_pfBuffer, m_lWritePointer, m_lBufferSize,
                             m_fMaximumDelay, m_fSampleRate,
                             delayPort, wetPort, input)
          IN  /\ m_pfBuffer' = r.buffer
              /\ m_lWritePointer' = r.pointer
              /\ ports' = [op |-> "simple", delay |-> delayPort,
                           wet |-> wetPort, feedback |-> 0,
                           input |-> input, output |-> r.output]
              /\ shadow' = r
       /\ LET other == RunSimple(twin.buffer, twin.pointer, m_lBufferSize,
                                 m_fMaximumDelay, m_fSampleRate,
                                 OtherDelay(delayPort), OtherWet(wetPort),
                                 input)
          IN  twin' = [buffer |-> other.buffer, pointer |-> other.pointer]
       /\ stream' = stream \o input
       /\ ideal' = IdealFeedback(ideal, input, 1, 0)
       /\ fits' = (fits /\ Len(input) <= m_lBufferSize)
  /\ pre' = [buffer |-> m_pfBuffer, pointer |-> m_lWritePointer]
  /\ UNCHANGED <<m_fSampleRate, m_fMaximumDelay, m_lBufferSize,
                 lDelayTypeIndex, phase, zeroFb>>

RunFeedbackUpTo(limit) ==
  /\ phase = "active"
  /\ lDelayTypeIndex = 1
  /\ ports = NoCall
  /\ \E delayPort \in DelayPorts, wetPort \in WetPorts,
        feedbackPort \in FeedbackPorts, input \in Blocks :
       /\ Len(stream) + Len(input) <= limit
       /\ LET r == RunFeedback(m_pfBuffer, m_lWritePointer, m_lBufferSize,
                               m_fMaximumDelay, m_fSampleRate,
                               delayPort, wetPort, feedbackPort, input)
          IN  /\ m_pfBuffer' = r.buffer
              /\ m_lWritePointer' = r.pointer
              /\ ports' = [op |-> "feedback", delay |-> delayPort,
                           wet |-> wetPort, feedback |-> feedbackPort,
                           input |-> input, output |-> r.output]
       /\ shadow' = RunSimple(shadow.buffer, shadow.pointer, m_lBufferSize,
                              m_fMaximumDelay, m_fSampleRate,
                              delayPort, wetPort, input)
       /\ stream' = stream \o input
       /\ fits' = (fits /\ Len(input) <= m_lBufferSize)
       /\ zeroFb' = (zeroFb /\ feedbackPort = 0)
       /\ ideal' = IdealFeedback(
                     ideal, input,
                     AtLeastOne(ToSamples(Nearest(delayPort, 0,
                                                  m_fMaximumDelay),
                                          m_fSampleRate)),
                     Nearest(feedbackPort, 0 - 1, 1))
  /\ pre' = [buffer |-> m_pfBuffer, pointer |-> m_lWritePointer]
  /\ UNCHANGED <<m_fSampleRate, m_fMaximumDelay, m_lBufferSize,
                 lDelayTypeIndex, phase, twin>>

runSimpleDelayLine == RunSimpleUpTo(MaxSimpleStream)

runFeedbackDelayLine == RunFeedbackUpTo(MaxFeedbackStream)

\* The host takes the output block of the call that returned and gets the
\* ports ready for its next call.
hostTakesOutput ==
  /\ ports # NoCall
  /\ ports' = NoCall
  /\ pre' = NoPre
  /\ shadow' = [shadow EXCEPT !.output = <<>>]
  /\ UNCHANGED <<m_fSampleRate, m_fMaximumDelay, m_lBufferSize, m_pfBuffer,
                 m_lWritePointer, lDelayTypeIndex, phase, stream, fits,
                 zeroFb, ideal, twin>>

Next ==
  \/ activateDelayLine
  \/ hostTakesOutput
  \/ runSimpleDelayLine
  \/ runFeedbackDelayLine

Spec == Init /\ [][Next]_vars

\* The instances of the plugins whose run function is runSimpleDelayLine.
InitSimple == DelayLine(Instances) /\ lDelayTypeIndex = 0

NextSimple ==
  \/ activateDelayLine
  \/ hostTakesOutput
  \/ runSimpleDelayLine

SpecSimple == InitSimple /\ [][NextSimple]_vars

\* The instances of the plugins whose run function is runFeedbackDelayLine.
InitFeedback == DelayLine(Instances) /\ lDelayTypeIndex = 1

NextFeedback ==
  \/ activateDelayLine
  \/ hostTakesOutput
  \/ runFeedbackDelayLine

SpecFeedback == InitFeedback /\ [][NextFeedback]_vars

\* Many more instances, each run for one sample after an activation.
InitSized == DelayLine(SizedInstances)

NextSized ==
  \/ activateDelayLine
  \/ hostTakesOutput
  \/ RunSimpleUpTo(1)
  \/ RunFeedbackUpTo(1)

SpecSized == InitSized /\ [][NextSized]_vars

TypeOK ==
  /\ phase \in {"constructed", "active"}
  /\ DOMAIN m_pfBuffer = 0 .. m_lBufferSize - 1
  /\ Len(ports.output) = Len(ports.input)

\* ------------------------------------------------------------ the claims
\* What the last call worked with.
lastN == Len(ports.input)
lastDelay == DelayOf(ports.delay, m_fMaximumDelay, m_fSampleRate)
lastRuns == ports.op \in {"simple", "feedback"}

\* The input stream since activation: x[j], with x[j] = 0 for j < 0.
X(j) == IF j < 0 THEN 0 ELSE stream[j + 1]

\* Stream position of sample 0 of the last block.
blockStart == Len(stream) - lastN

\* C1: over the whole stream since activation, cut into blocks of at most
\* capacity samples with any delay and wet per block, the plain delay's
\* output at stream position t is dry * in[t] + wet * x[t - d], d the
\* block's delay in samples (outputs are stored times WetDen).
C1_PlainDelayIsIdealDelay ==
  (ports.op = "simple" /\ fits) =>
    /\ lastDelay \in 0 .. ToSamples(m_fMaximumDelay, m_fSampleRate)
    /\ Len(ports.output) = lastN
    /\ \A i \in 0 .. lastN - 1 :
         LET wet == Nearest(ports.wet, 0, WetDen)
         IN  ports.output[i + 1] =
               (WetDen - wet) * ports.input[i + 1]
                 + wet * X(blockStart + i - lastDelay)

\* An impulse of an earlier block comes out, alone, in a later block, after
\* the stream has gone round the buffer.
C1_Witness ==
  /\ ports.op = "simple" /\ fits
  /\ ports.wet = WetDen
  /\ lastDelay = 3
  /\ Len(stream) = 6 /\ blockStart = 4
  /\ stream = <<0, 0, 1, 0, 0, 0>>
  /\ ports.output = <<0, WetDen>>

\* C2 as stated: with feedback 0 ever since activation the feedback delay
\* gives the outputs of the plain delay run on the same ports, whatever
\* the delay, a delay of 0 included.
C2_ZeroFeedbackIsPlainDelay ==
  (ports.op = "feedback" /\ zeroFb) => ports.output = shadow.output

\* C2 amended: with feedback 0 ever since activation the feedback delay
\* keeps the buffer and write pointer of the plain delay run on the same
\* ports, and gives its outputs in every block whose delay is at least one
\* sample.
C2_ZeroFeedbackIsPlainDelayFromOneSample ==
  (ports.op = "feedback" /\ zeroFb) =>
    /\ m_pfBuffer = shadow.buffer
    /\ m_lWritePointer = shadow.pointer
    /\ lastDelay >= 1 => ports.output = shadow.output

C2_Witness ==
  /\ ports.op = "feedback" /\ zeroFb
  /\ lastDelay = 2
  /\ ports.wet = 1
  /\ blockStart > 0
  /\ lastN = 3
  /\ \E i \in 1 .. lastN : ports.output[i] # WetDen * ports.input[i]
  /\ ports.output = shadow.output

\* C3: in the feedback delay a delay that converts to 0 samples gives the
\* outputs, the buffer and the write pointer that a delay of 1 sample
\* gives from the same state with the same input, wet and feedback.
C3_ZeroDelayIsOneSample ==
  (ports.op = "feedback" /\ lastDelay = 0) =>
    LET one == FeedbackFrom(pre.buffer, pre.pointer, m_lBufferSize, 1,
                            ports.wet, ports.feedback, ports.input)
    IN  /\ ports.output = one.output
        /\ m_pfBuffer = one.buffer
        /\ m_lWritePointer = one.pointer
        /\ \A i \in 0 .. lastN - 1 :
             LET wet == Nearest(ports.wet, 0, WetDen)
                 before == IF i = 0
                           THEN pre.buffer[(pre.pointer + m_lBufferSize - 1)
                                             % m_lBufferSize]
                           ELSE m_pfBuffer[(pre.pointer + i - 1)
                                             % m_lBufferSize]
             IN  lastN <= m_lBufferSize =>
                   ports.output[i + 1] =
                     (WetDen - wet) * ports.input[i + 1] + wet * before

\* A zero delay whose output is the echo of the sample before, and neither
\* the input itself nor the old content of the slot being written.
C3_Witness ==
  /\ ports.op = "feedback" /\ lastDelay = 0
  /\ ports.wet = WetDen /\ ports.feedback = 1
  /\ m_lBufferSize = 4
  /\ ports.input = <<1, 0>>
  /\ pre.buffer[pre.pointer] = 0
  /\ ports.output = <<0, WetDen>>

\* C4: once activated, the write pointer is the number of samples
\* processed since the activation modulo the buffer size, and so lies in
\* 0 .. capacity - 1.
C4_WritePointerIsSumModCapacity ==
  phase = "active" =>
    /\ m_lWritePointer = Len(stream) % m_lBufferSize
    /\ m_lWritePointer \in 0 .. m_lBufferSize - 1

\* A second block that takes the pointer past the end of the buffer.
C4_Witness ==
  /\ phase = "active" /\ lastRuns
  /\ m_lBufferSize = 4
  /\ blockStart = 3 /\ lastN = 2
  /\ m_lWritePointer = 1

\* C5: activation leaves every buffer slot 0 and the write pointer 0,
\* whatever the state it is called in.
C5_ActivationResets ==
  ports.op = "activate" =>
    /\ \A i \in 0 .. m_lBufferSize - 1 : m_pfBuffer[i] = 0
    /\ DOMAIN m_pfBuffer = 0 .. m_lBufferSize - 1
    /\ m_lWritePointer = 0

\* A reactivation after blocks were processed, with history in the buffer.
C5_Witness ==
  /\ ports.op = "activate"
  /\ m_lBufferSize = 4
  /\ \A i \in 1 .. 3 : pre.buffer[i] # 0
  /\ pre.pointer # 0
  /\ stream = <<>>

\* C6: with wet = 0 the plain delay's output is its input, sample for
\* sample, for every buffer state, every delay and every block of at most
\* capacity samples (outputs are stored times WetDen).
C6_PlainDelayDryIsIdentity ==
  (ports.op = "simple" /\ ports.wet = 0 /\ lastN <= m_lBufferSize) =>
    /\ Len(ports.output) = lastN
    /\ \A i \in 1 .. lastN : ports.output[i] = WetDen * ports.input[i]

\* A dry block with a delay whose delayed samples differ from the input.
C6_Witness ==
  /\ ports.op = "simple" /\ ports.wet = 0
  /\ lastDelay = 2
  /\ lastN = 3
  /\ ports.input = <<1, 0, 1>>
  /\ pre.buffer[(pre.pointer + m_lBufferSize - 2) % m_lBufferSize] = 0
  /\ pre.buffer[(pre.pointer + m_lBufferSize - 1) % m_lBufferSize] = 1
  /\ ports.output = <<WetDen, 0, WetDen>>

\* C7: with wet = 1 and a delay of 0 samples the plain delay's output is
\* its input, sample for sample, whatever the buffer holds, for every
\* block of at most capacity samples.
C7_PlainDelayWetZeroDelayIsIdentity ==
  (/\ ports.op = "simple"
   /\ ports.wet = WetDen
   /\ lastDelay = 0
   /\ lastN <= m_lBufferSize) =>
    /\ Len(ports.output) = lastN
    /\ \A i \in 1 .. lastN : ports.output[i] = WetDen * ports.input[i]

\* A fully wet block with no delay, over slots that all held other values.
C7_Witness ==
  /\ ports.op = "simple" /\ ports.wet = WetDen /\ lastDelay = 0
  /\ m_lBufferSize = 4
  /\ lastN = 3
  /\ \A i \in 0 .. 2 :
       pre.buffer[(pre.pointer + i) % m_lBufferSize] # ports.input[i + 1]
  /\ ports.output = <<WetDen, 0, WetDen>>

IsPowerOfTwo(n) == \E k \in 0 .. 16 : n = 2 ^ k

\* C8: the buffer size is the smallest power of two greater than
\* floor(sampleRate * maximumDelay), in every state; it is 65536 for a
\* rate of 44100 and a maximum delay of 1 second.
C8_SmallestPowerOfTwo ==
  LET product == (m_fSampleRate * m_fMaximumDelay) \div TimeDen
  IN  /\ IsPowerOfTwo(m_lBufferSize)
      /\ m_lBufferSize > product
      /\ \A n \in 1 .. m_lBufferSize - 1 :
           IsPowerOfTwo(n) => n <= product
      /\ BufferSizeFor(44100, TimeDen) = 65536

\* C8: ... and neither it nor what it is computed from ever changes.
C8_BufferSizing ==
  /\ []C8_SmallestPowerOfTwo
  /\ [][UNCHANGED <<m_lBufferSize, m_fSampleRate, m_fMaximumDelay>>]_vars

\* An instance whose product has a fraction and is no power of two less
\* one (5 / TimeDen seconds at rate 4), after it has processed a block.
C8_Witness ==
  /\ m_fSampleRate = 4 /\ m_fMaximumDelay = 5
  /\ m_lBufferSize = 16
  /\ lastRuns /\ lastN = 1

\* The last call's ports, each replaced by the nearest value of its range.
saturated ==
  [delay |-> Nearest(ports.delay, 0, m_fMaximumDelay),
   wet |-> Nearest(ports.wet, 0, WetDen),
   feedback |-> Nearest(ports.feedback, 0 - 1, 1)]

\* C9: a call gives the output, the buffer and the write pointer of the
\* call with every port replaced by the nearest bound of its range, and
\* leaves the instance active.
C9_PortsSaturate ==
  /\ ports.op = "simple" =>
       LET r == RunSimple(pre.buffer, pre.pointer, m_lBufferSize,
                          m_fMaximumDelay, m_fSampleRate,
                          saturated.delay, saturated.wet, ports.input)
       IN  /\ ports.output = r.output
           /\ m_pfBuffer = r.buffer
           /\ m_lWritePointer = r.pointer
           /\ phase = "active"
  /\ ports.op = "feedback" =>
       LET r == RunFeedback(pre.buffer, pre.pointer, m_lBufferSize,
                            m_fMaximumDelay, m_fSampleRate,
                            saturated.delay, saturated.wet,
                            saturated.feedback, ports.input)
       IN  /\ ports.output = r.output
           /\ m_pfBuffer = r.buffer
           /\ m_lWritePointer = r.pointer
           /\ phase = "active"

\* A feedback call with all three ports out of range, on a buffer with
\* history, whose output and stored values show the saturated gains.
C9_Witness ==
  /\ ports.op = "feedback"
  /\ ports.delay > m_fMaximumDelay
  /\ ports.wet < 0
  /\ ports.feedback > 1
  /\ m_lBufferSize = 4 /\ blockStart = 3
  /\ ports.input = <<1>>
  /\ pre.buffer[0] = 1
  /\ m_pfBuffer[3] = 2
  /\ ports.output = <<WetDen>>

\* The buffer of the last call once input[0 .. i] were stored.
RECURSIVE StoredUpTo(_)
StoredUpTo(i) ==
  IF i < 0 THEN pre.buffer
  ELSE [StoredUpTo(i - 1) EXCEPT
          ![(pre.pointer + i) % m_lBufferSize] = ports.input[i + 1]]

\* C10 as stated: the plain delay reads the delayed sample for output i
\* before it stores input[i], so that with a delay of 0 samples the wet
\* term of output i is the old value of the slot being written.
C10_PlainDelayReadsBeforeStore ==
  (ports.op = "simple" /\ lastDelay = 0 /\ lastN <= m_lBufferSize) =>
    \A i \in 0 .. lastN - 1 :
      ports.output[i + 1] =
        (WetDen - WetOf(ports.wet)) * ports.input[i + 1]
          + WetOf(ports.wet)
              * pre.buffer[(pre.pointer + i) % m_lBufferSize]

\* C10 amended: the plain delay stores input[i] before it reads the
\* delayed sample for output i: the wet term is the content of the read
\* slot once input[0 .. i] are stored, which with a delay of 0 samples is
\* input[i] itself.
C10_PlainDelayStoresBeforeRead ==
  (ports.op = "simple" /\ lastN <= m_lBufferSize) =>
    \A i \in 0 .. lastN - 1 :
      LET readSlot == (pre.pointer + m_lBufferSize - lastDelay + i)
                        % m_lBufferSize
          wet == WetOf(ports.wet)
          dryTerm == (WetDen - wet) * ports.input[i + 1]
      IN  /\ ports.output[i + 1] = dryTerm + wet * StoredUpTo(i)[readSlot]
          /\ lastDelay = 0 =>
               ports.output[i + 1] = dryTerm + wet * ports.input[i + 1]

\* A half wet block with no delay whose written slot held another value.
C10_Witness ==
  /\ ports.op = "simple" /\ lastDelay = 0 /\ ports.wet = 1
  /\ m_lBufferSize = 2
  /\ ports.input = <<1, 1>>
  /\ pre.buffer[pre.pointer] = 0
  /\ ports.output = <<WetDen, WetDen>>

\* The filter's value at stream position j, 0 before the activation.
Y(j) == IF j < 0 THEN 0 ELSE ideal[j + 1]

\* The last call's delay in samples after the zero-delay correction.
lastEffectiveDelay == AtLeastOne(lastDelay)

\* C11: over the whole stream since activation, cut into blocks of at most
\* capacity samples with any delay, wet and feedback per block, the
\* feedback delay's output at stream position t is
\* dry * in[t] + wet * y[t - d], d = max(1, delaySamples), and slot
\* t mod capacity holds y[t] = in[t] + feedback * y[t - d] for the last
\* capacity positions (outputs are stored times WetDen).
C11_FeedbackDelayIsRecursiveFilter ==
  (ports.op = "feedback" /\ fits) =>
    /\ Len(ideal) = Len(stream)
    /\ \A i \in 0 .. lastN - 1 :
         LET wet == Nearest(ports.wet, 0, WetDen)
             t == blockStart + i
         IN  /\ ports.output[i + 1] =
                  (WetDen - wet) * ports.input[i + 1]
                    + wet * Y(t - lastEffectiveDelay)
             /\ Y(t) = ports.input[i + 1]
                         + Nearest(ports.feedback, 0 - 1, 1)
                             * Y(t - lastEffectiveDelay)
    /\ \A t \in 0 .. Len(stream) - 1 :
         t >= Len(stream) - m_lBufferSize =>
           m_pfBuffer[t % m_lBufferSize] = Y(t)

\* A block longer than its delay: the impulse stored by sample 0 is read
\* back, fed back and read again within the block.
C11_Witness ==
  /\ ports.op = "feedback" /\ fits
  /\ m_lBufferSize = 4
  /\ lastDelay = 1 /\ ports.feedback = 1 /\ ports.wet = WetDen
  /\ blockStart = 1
  /\ ports.input = <<1, 0, 0>>
  /\ ports.output = <<0, WetDen, WetDen>>
  /\ ideal = <<0, 1, 1, 1>>

\* The delay in samples the last call read at: lDelay as the loop used it.
lastUsedDelay ==
  IF ports.op = "feedback" THEN ZeroDelayCorrection(lastDelay) ELSE lastDelay

\* The slots that sample i of the last call read and wrote.
lastReadSlot(i) ==
  BitAnd(UL(i + ReadOffset(pre.pointer, m_lBufferSize, lastUsedDelay)),
         m_lBufferSize - 1)
lastWriteSlot(i) == BitAnd(UL(i + pre.pointer), m_lBufferSize - 1)

\* C12 as stated: in every block of either run function the delay in
\* samples that is used is less than the buffer size, and a sample's read
\* slot is its write slot only when that delay is 0.
C12_DelayBelowCapacity ==
  lastRuns =>
    /\ lastUsedDelay < m_lBufferSize
    /\ \A i \in 0 .. lastN - 1 :
         lastReadSlot(i) = lastWriteSlot(i) => lastUsedDelay = 0

\* C12 amended: the delay that is used is less than the buffer size, but
\* for the feedback delay of an instance whose sampleRate * maximumDelay
\* is below 1: its buffer has 1 slot and the corrected delay of 1 sample
\* equals it.  A sample's read slot is its write slot only when the
\* delay used is 0 or is the buffer size.
C12_DelayBelowCapacityButSingleSlot ==
  lastRuns =>
    /\ \/ lastUsedDelay < m_lBufferSize
       \/ /\ ports.op = "feedback"
          /\ (m_fSampleRate * m_fMaximumDelay) \div TimeDen = 0
          /\ m_lBufferSize = 1
          /\ lastUsedDelay = 1
    /\ ports.op = "simple" => lastUsedDelay < m_lBufferSize
    /\ (m_fSampleRate * m_fMaximumDelay) \div TimeDen >= 1 =>
         lastUsedDelay < m_lBufferSize
    /\ \A i \in 0 .. lastN - 1 :
         lastReadSlot(i) = lastWriteSlot(i) =>
           lastUsedDelay \in {0, m_lBufferSize}

\* The longest delay of an instance whose buffer is just one slot longer,
\* read and written at slots that wrap.
C12_Witness ==
  /\ ports.op = "feedback"
  /\ m_lBufferSize = 4 /\ lastUsedDelay = 3
  /\ pre.pointer = 2 /\ lastN = 2
  /\ lastReadSlot(0) = 3 /\ lastWriteSlot(1) = 3

\* floor(clamp(delay port, 0, maximum delay) * sampleRate) of the last call
lastFloor ==
  LET product == Nearest(ports.delay, 0, m_fMaximumDelay) * m_fSampleRate
  IN  CHOOSE k \in 0 .. product :
        k * TimeDen <= product /\ product < (k + 1) * TimeDen

\* What sample i of the last call (of at most capacity samples) found in
\* the slot d samples behind its write slot.
lastDelayed(i, d) ==
  LET slot == (pre.pointer + 2 * m_lBufferSize - d + i) % m_lBufferSize
      storedBefore == \E j \in 0 .. i - 1 : lastWriteSlot(j) = slot
  IN  IF ports.op = "simple" THEN StoredUpTo(i)[slot]
      ELSE IF storedBefore THEN m_pfBuffer[slot]
      ELSE pre.buffer[slot]

\* C13: the delay in samples is the floor of the clamped delay times the
\* sample rate; the feedback delay raises a floor of 0 to 1 and leaves any
\* other floor; each output is the blend of the input with the sample
\* found that many samples back.
C13_DelayConversionTruncates ==
  lastRuns =>
    LET expected == IF ports.op = "feedback" /\ lastFloor = 0 THEN 1
                    ELSE lastFloor
        wet == Nearest(ports.wet, 0, WetDen)
    IN  /\ lastUsedDelay = expected
        /\ lastN <= m_lBufferSize =>
             \A i \in 0 .. lastN - 1 :
               ports.output[i + 1] =
                 (WetDen - wet) * ports.input[i + 1]
                   + wet * lastDelayed(i, expected)

\* A product of 1.5 samples: the echo comes after 1 sample, not after 2.
C13_Witness ==
  /\ ports.op = "simple"
  /\ m_fSampleRate = 1 /\ ports.delay * 2 = 3 * TimeDen
  /\ lastFloor = 1
  /\ ports.wet = WetDen
  /\ ports.input = <<1, 0>>
  /\ ports.output = <<0, WetDen>>
  /\ blockStart = 2 /\ stream = <<0, 0, 1, 0>>

\* The last call's outputs are those of the ideal delay over the stream.
lastIsIdealDelay ==
  \A i \in 0 .. lastN - 1 :
    LET wet == Nearest(ports.wet, 0, WetDen)
    IN  ports.output[i + 1] =
          (WetDen - wet) * ports.input[i + 1]
            + wet * X(blockStart + i - lastDelay)

\* The buffer holds the last capacity samples of the stream at slots wrap(t).
holdsLastInputs ==
  \A t \in 0 .. Len(stream) - 1 :
    t >= Len(stream) - m_lBufferSize => m_pfBuffer[t % m_lBufferSize] = X(t)

\* C14 as stated: a call of the plain delay with more samples than the
\* buffer has slots gives an output or leaves a buffer that differs from
\* the ideal delay's.
C14_LongBlocksBreakPlainDelay ==
  (ports.op = "simple" /\ lastN > m_lBufferSize) =>
    ~(lastIsIdealDelay /\ holdsLastInputs)

\* C14, amended: whatever the block lengths since activation, longer than
\* the buffer included, the plain delay gives the ideal delay's output and
\* leaves the last capacity input samples in the buffer.
C14_PlainDelaySurvivesLongBlocks ==
  ports.op = "simple" =>
    /\ Len(ports.output) = lastN
    /\ lastIsIdealDelay
    /\ holdsLastInputs

\* Three samples through two slots, the impulse echoed one sample later.
C14_Witness ==
  /\ ports.op = "simple"
  /\ m_lBufferSize = 2 /\ lastN = 3 /\ ~fits
  /\ lastDelay = 1 /\ ports.wet = WetDen
  /\ ports.input = <<1, 0, 1>>
  /\ ports.output = <<0, WetDen, 0>>
  /\ m_pfBuffer[0] = 1 /\ m_pfBuffer[1] = 0

\* C15: in a call of either run function, of any length and with any
\* ports, the write pointer and every slot read or written lie in
\* 0 .. m_lBufferSize - 1, the buffer has exactly those slots, and
\* pointer + m_lBufferSize - lDelay is not negative, so that the unsigned
\* read offset is that very number.
C15_AccessesInBounds ==
  lastRuns =>
    /\ DOMAIN pre.buffer = 0 .. m_lBufferSize - 1
    /\ DOMAIN m_pfBuffer = 0 .. m_lBufferSize - 1
    /\ pre.pointer \in 0 .. m_lBufferSize - 1
    /\ m_lWritePointer \in 0 .. m_lBufferSize - 1
    /\ pre.pointer + m_lBufferSize - lastUsedDelay >= 0
    /\ ReadOffset(pre.pointer, m_lBufferSize, lastUsedDelay) =
         pre.pointer + m_lBufferSize - lastUsedDelay
    /\ \A i \in 0 .. lastN - 1 :
         /\ lastReadSlot(i) \in 0 .. m_lBufferSize - 1
         /\ lastWriteSlot(i) \in 0 .. m_lBufferSize - 1

\* The tightest case: a delay port above its range, a delay equal to the
\* single slot, the read offset 0, and more samples than slots.
C15_Witness ==
  /\ ports.op = "feedback"
  /\ m_lBufferSize = 1 /\ lastN = 3
  /\ ports.delay > m_fMaximumDelay
  /\ lastUsedDelay = 1
  /\ ReadOffset(pre.pointer, m_lBufferSize, lastUsedDelay) = 0
  /\ lastReadSlot(2) = 0 /\ lastWriteSlot(2) = 0

\* C16: a call of either run function with at most m_lBufferSize samples
\* leaves the buffer size, the sample rate and the maximum delay as they
\* were, and every slot of the buffer other than the slots
\* wrap(m_lWritePointer + i), i < n, as it was; after the plain delay slot
\* wrap(m_lWritePointer + i) holds input[i].
C16_RunFrame ==
  [][(/\ ports = NoCall
      /\ ports'.op \in {"simple", "feedback"}
      /\ Len(ports'.input) <= m_lBufferSize)
       => LET n == Len(ports'.input)
              slot(i) == (m_lWritePointer + i) % m_lBufferSize
          IN  /\ m_lBufferSize' = m_lBufferSize
              /\ m_fSampleRate' = m_fSampleRate
              /\ m_fMaximumDelay' = m_fMaximumDelay
              /\ DOMAIN m_pfBuffer' = DOMAIN m_pfBuffer
              /\ \A s \in DOMAIN m_pfBuffer :
                   (\A i \in 0 .. n - 1 : slot(i) # s)
                     => m_pfBuffer'[s] = m_pfBuffer[s]
              /\ ports'.op = "simple" =>
                   \A i \in 0 .. n - 1 :
                     m_pfBuffer'[slot(i)] = ports'.input[i + 1]]_vars

\* Two samples stored across the end of a buffer of four slots, the two
\* slots in between keeping what they held.
C16_Witness ==
  /\ ports.op = "simple"
  /\ m_lBufferSize = 4 /\ pre.pointer = 3 /\ m_lWritePointer = 1
  /\ lastDelay = 1
  /\ ports.input = <<1, 0>>
  /\ pre.buffer = [s \in 0 .. 3 |-> IF s = 3 THEN 0 ELSE 1]
  /\ m_pfBuffer = [s \in 0 .. 3 |-> IF s = 0 THEN 0 ELSE 1]

\* C17: after every block the plain delay line has the buffer and the
\* write pointer of its twin, which got the same blocks with another delay
\* and another wet each time; from the state before the block any delay
\* and any wet lead to this buffer and this write pointer; and the block's
\* output is given by the stream and the block's own delay and wet.
C17_PlainDelayPortsDoNotLeak ==
  ports.op = "simple" =>
    /\ OtherDelay(ports.delay) # ports.delay
    /\ OtherWet(ports.wet) # ports.wet
    /\ twin.buffer = m_pfBuffer
    /\ twin.pointer = m_lWritePointer
    /\ \A delayPort \in DelayPorts, wetPort \in WetPorts :
         LET r == RunSimple(pre.buffer, pre.pointer, m_lBufferSize,
                            m_fMaximumDelay, m_fSampleRate,
                            delayPort, wetPort, ports.input)
         IN  r.buffer = m_pfBuffer /\ r.pointer = m_lWritePointer
    /\ lastIsIdealDelay

\* The second block of a line that ran dry and without delay while its
\* twin ran wet at the longest delay, and the other way round in this
\* block, whose echo is of the first block's impulse.
C17_Witness ==
  /\ ports.op = "simple"
  /\ m_lBufferSize = 4
  /\ stream = <<1, 0, 0, 0, 0>> /\ blockStart = 2
  /\ ports.wet = WetDen /\ lastDelay = 2
  /\ OtherWet(ports.wet) = 0 /\ OtherDelay(ports.delay) = 0
  /\ ports.output = <<WetDen, 0, 0>>
  /\ twin.buffer = m_pfBuffer /\ twin.pointer = 1
  /\ m_pfBuffer[0] = 0 /\ m_pfBuffer[1] = 0

\* The run function of the last call, from a given buffer and write
\* pointer, with the ports of the last call and a given input block.
lastRunOn(buffer, pointer, input) ==
  IF ports.op = "simple"
  THEN RunSimple(buffer, pointer, m_lBufferSize, m_fMaximumDelay, m_fSampleRate, ports.delay, ports.wet, input)
  ELSE RunFeedback(buffer, pointer, m_lBufferSize, m_fMaximumDelay, m_fSampleRate, ports.delay, ports.wet, ports.feedback, input)

\* C18: a call of either run function with at most m_lBufferSize samples
\* gives the outputs, the buffer and the write pointer that two calls with
\* the same ports give, the first on the first n1 samples and the second
\* on the others, wherever the block is cut.
C18_BlockPartitioning ==
  (lastRuns /\ lastN <= m_lBufferSize) =>
    \A n1 \in 0 .. lastN :
      LET first == lastRunOn(pre.buffer, pre.pointer,
                             SubSeq(ports.input, 1, n1))
          second == lastRunOn(first.buffer, first.pointer,
                              SubSeq(ports.input, n1 + 1, lastN))
      IN  /\ first.output \o second.output = ports.output
          /\ second.buffer = m_pfBuffer
          /\ second.pointer = m_lWritePointer

\* A block whose impulse goes round with feedback 1 at a delay of one
\* sample, so that each part of a cut block feeds the next.
C18_Witness ==
  /\ ports.op = "feedback"
  /\ m_lBufferSize = 4 /\ lastN = 3 /\ pre.pointer = 0
  /\ lastUsedDelay = 1 /\ ports.feedback = 1 /\ ports.wet = WetDen
  /\ ports.input = <<1, 0, 0>>
  /\ ports.output = <<0, WetDen, WetDen>>
  /\ lastRunOn(pre.buffer, pre.pointer, <<1>>).pointer = 1
  /\ m_lWritePointer = 3

====
